---- MODULE Spec2Model ----
(***************************************************************************)
(* Model of the C++ tokenizer of src/src/lexical.cpp (class Tokenizer).    *)
(* A character is a one-character string; the characters TLA+ cannot       *)
(* write in a string are named (NUL for code 0, VT for code 11).  A        *)
(* std::string is a sequence of characters.  The cursor (pos, line,        *)
(* column) and the locals of tokenize and of the sub-scanners are the      *)
(* variables; pc is the position of the scan in the code.  One step is one *)
(* loop test, one loop iteration or one straight-line block of the code.   *)
(* startPos and fate are history variables: the offset at which the        *)
(* current token began, and what became of each consumed character.        *)
(* returned is the sequence of the vectors tokenize has returned to its    *)
(* caller.  The variables above are those of the Tokenizer instance that   *)
(* is running; other holds a second instance while it is not running and   *)
(* active is the number (1 or 2) of the running one.                       *)
(***************************************************************************)
EXTENDS Integers, Sequences, FiniteSets, TLC

VARIABLES source, pos, line, column, tokens, value, startLine, startCol, pc,
          startPos, fate, returned, other, active

vars == <<source, pos, line, column, tokens, value, startLine, startCol, pc,
          startPos, fate, returned, other, active>>

(* ---------------------------------------------------------------------- *)
(* Characters and the <cctype> predicates (C locale, 7-bit characters).    *)
(* ---------------------------------------------------------------------- *)
NUL == "NUL"
VT == "VT"
QUOTE == "\""
BACKSLASH == "\\"
NEWLINE == "\n"

Lower ==
    {"a","b","c","d","e","f","g","h","i","j","k","l","m",
     "n","o","p","q","r","s","t","u","v","w","x","y","z"}
Upper ==
    {"A","B","C","D","E","F","G","H","I","J","K","L","M",
     "N","O","P","Q","R","S","T","U","V","W","X","Y","Z"}
Digits ==
    {"0","1","2","3","4","5","6","7","8","9"}

isalpha(c) == c \in Lower \cup Upper
isdigit(c) == c \in Digits
isalnum(c) == isalpha(c) \/ isdigit(c)
isspace(c) == c \in {" ", "\t", NEWLINE, VT, "\f", "\r"}

(* enum TokenType *)
KEYWORD == "KEYWORD"
IDENTIFIER == "IDENTIFIER"
NUMBER == "NUMBER"
OPERATOR == "OPERATOR"
PUNCTUATION == "PUNCTUATION"
STRING_LITERAL == "STRING_LITERAL"
END_OF_FILE == "END_OF_FILE"
UNKNOWN == "UNKNOWN"

TokenType ==
    {KEYWORD, IDENTIFIER, NUMBER, OPERATOR, PUNCTUATION, STRING_LITERAL,
     END_OF_FILE, UNKNOWN}

(* Tokenizer::keywords *)
keywords ==
    {
      <<"a", "u", "t", "o">>, <<"b", "r", "e", "a", "k">>,
      <<"c", "a", "s", "e">>, <<"c", "h", "a", "r">>,
      <<"c", "o", "n", "s", "t">>, <<"c", "o", "n", "t", "i", "n", "u", "e">>,
      <<"d", "e", "f", "a", "u", "l", "t">>, <<"d", "o">>,
      <<"d", "o", "u", "b", "l", "e">>, <<"e", "l", "s", "e">>,
      <<"e", "n", "u", "m">>, <<"e", "x", "t", "e", "r", "n">>,
      <<"f", "l", "o", "a", "t">>, <<"f", "o", "r">>,
      <<"g", "o", "t", "o">>, <<"i", "f">>,
      <<"i", "n", "t">>, <<"l", "o", "n", "g">>,
      <<"r", "e", "g", "i", "s", "t", "e", "r">>, <<"r", "e", "t", "u", "r", "n">>,
      <<"s", "h", "o", "r", "t">>, <<"s", "i", "g", "n", "e", "d">>,
      <<"s", "i", "z", "e", "o", "f">>, <<"s", "t", "a", "t", "i", "c">>,
      <<"s", "t", "r", "u", "c", "t">>, <<"s", "w", "i", "t", "c", "h">>,
      <<"t", "y", "p", "e", "d", "e", "f">>, <<"u", "n", "i", "o", "n">>,
      <<"u", "n", "s", "i", "g", "n", "e", "d">>, <<"v", "o", "i", "d">>,
      <<"v", "o", "l", "a", "t", "i", "l", "e">>, <<"w", "h", "i", "l", "e">>,
      <<"c", "l", "a", "s", "s">>, <<"n", "a", "m", "e", "s", "p", "a", "c", "e">>,
      <<"p", "u", "b", "l", "i", "c">>, <<"p", "r", "i", "v", "a", "t", "e">>,
      <<"p", "r", "o", "t", "e", "c", "t", "e", "d">>, <<"v", "i", "r", "t", "u", "a", "l">>,
      <<"b", "o", "o", "l">>, <<"t", "r", "u", "e">>,
      <<"f", "a", "l", "s", "e">>
    }

(* struct Token.  from and to are history fields, not members of the      *)
(* struct: the offsets of the cursor when the scan of the token began and *)
(* when the token was built.                                              *)
Token(t, v, l, c, f, e) ==
    [type |-> t, value |-> v, line |-> l, column |-> c, from |-> f, to |-> e]

(* ---------------------------------------------------------------------- *)
(* Inputs.                                                                 *)
(* ---------------------------------------------------------------------- *)
MaxLen == 3
MaxOpLen == 3
MaxCommentLen == 6
MaxStringLen == 5
MaxIdentLen == 4
MaxCalls == 2

Strings(A, n) == UNION {[1..k -> A] : k \in 0..n}

GeneralAlphabet ==
    {"i", "f", "1", ".", QUOTE, BACKSLASH, "/", "*", NEWLINE, "=", "<", ";",
     "#", NUL}
OperatorAlphabet ==
    {"+", "-", "*", "/", "=", "<", ">", "!", "&", "|", ":"}
CommentAlphabet ==
    {"/", "*", NEWLINE, "x"}
StringAlphabet ==
    {QUOTE, BACKSLASH, "a", NUL, NEWLINE}
IdentAlphabet ==
    {"i", "f", "_", "1", ".", " "}

ScnEmpty ==
    <<>>
ScnDecl ==
    <<"i", "n", "t", " ", "x", " ", "=", " ", "4", "2", ";">>
ScnLineComment ==
    <<"/", "/", " ", "c", "o", "m", "m", "e", "n", "t", "\n", "x">>
ScnAdjacentComments ==
    <<"/", "*", "*", "/", "/", "*", "*", "/", "x">>
ScnEscapedQuote ==
    <<"\"", "a", "b", "\\", "\"", "c", "d", "\"">>
ScnArrowScope ==
    <<"a", "-", ">", "b", ":", ":", "c">>
ScnEqEq ==
    <<"=", "=">>
ScnShiftAssign ==
    <<"<", "<", "=">>
ScnKeywordPrefix ==
    <<"i", "n", "t", "x">>
ScnUnderscoreIf ==
    <<"_", "i", "f">>

ScnManyDots ==
    <<"1", ".", "2", ".", "3">>
ScnTrailingDots ==
    <<"1", ".", ".">>
ScnDigitsLetters ==
    <<"4", "2", "a", "b", "c">>

Scenarios ==
    {ScnEmpty, ScnDecl, ScnLineComment, ScnAdjacentComments, ScnEscapedQuote,
     ScnArrowScope, ScnEqEq, ScnShiftAssign, ScnKeywordPrefix,
     ScnUnderscoreIf, ScnManyDots, ScnTrailingDots, ScnDigitsLetters}

Inputs ==
    Strings(GeneralAlphabet, MaxLen) \cup Strings(OperatorAlphabet, MaxOpLen)
    \cup Strings(CommentAlphabet, MaxCommentLen)
    \cup Strings(StringAlphabet, MaxStringLen)
    \cup Strings(IdentAlphabet, MaxIdentLen) \cup Scenarios

(* ---------------------------------------------------------------------- *)
(* The cursor.                                                             *)
(* ---------------------------------------------------------------------- *)
Cur == [pos |-> pos, line |-> line, column |-> column]

(* char peek(int offset = 0), read at the cursor c *)
peekAt(c, offset) ==
    IF c.pos + offset >= Len(source) THEN NUL ELSE source[c.pos + offset + 1]

peek(offset) == peekAt(Cur, offset)

(* the character advance() returns at the cursor c *)
advanceChar(c) ==
    IF c.pos >= Len(source) THEN NUL ELSE source[c.pos + 1]

(* advance() that forgets to reset the column at a newline *)
advance_NoColumnReset(c) ==
    IF c.pos >= Len(source)
    THEN c
    ELSE IF source[c.pos + 1] = NEWLINE
         THEN [pos |-> c.pos + 1, line |-> c.line + 1, column |-> c.column + 1]
         ELSE [pos |-> c.pos + 1, line |-> c.line, column |-> c.column + 1]

(* advance() that resets the column at a newline but keeps the line *)
advance_NoLineIncrement(c) ==
    IF c.pos >= Len(source)
    THEN c
    ELSE IF source[c.pos + 1] = NEWLINE
         THEN [pos |-> c.pos + 1, line |-> c.line, column |-> 1]
         ELSE [pos |-> c.pos + 1, line |-> c.line, column |-> c.column + 1]

(* advance() without its test for the end of input: it moves past the end *)
advance_PastEnd(c) ==
    IF c.pos >= Len(source)
    THEN [pos |-> c.pos + 1, line |-> c.line, column |-> c.column + 1]
    ELSE IF source[c.pos + 1] = NEWLINE
         THEN [pos |-> c.pos + 1, line |-> c.line + 1, column |-> 1]
         ELSE [pos |-> c.pos + 1, line |-> c.line, column |-> c.column + 1]

(* the cursor advance() leaves when called at the cursor c *)
advance(c) ==
    IF c.pos >= Len(source)
    THEN c
    ELSE IF source[c.pos + 1] = NEWLINE
         THEN [pos |-> c.pos + 1, line |-> c.line + 1, column |-> 1]
         ELSE [pos |-> c.pos + 1, line |-> c.line, column |-> c.column + 1]

(* The cursor becomes c; fate records, for every character consumed on    *)
(* the way, where it went (history, not a member of the class).           *)
Consume(c, tags) ==
    /\ pos' = c.pos
    /\ line' = c.line
    /\ column' = c.column
    /\ fate' = fate \o SubSeq(tags, 1, c.pos - pos)

Stay == UNCHANGED <<pos, line, column, fate>>

(* what no step of a scan writes: the source, the vectors already         *)
(* returned, and the other instance                                        *)
Outside == <<source, returned, other, active>>

Locals == <<value, startLine, startCol, startPos>>

(* int startLine = line; int startCol = column; *)
MarkStart ==
    /\ startLine' = line
    /\ startCol' = column
    /\ startPos' = pos

(* ---------------------------------------------------------------------- *)
(* tokenize: the dispatch loop.                                            *)
(* ---------------------------------------------------------------------- *)
(* the members and locals of this instance *)
Rec ==
    [source |-> source, pos |-> pos, line |-> line, column |-> column,
     tokens |-> tokens, value |-> value, startLine |-> startLine,
     startCol |-> startCol, startPos |-> startPos, fate |-> fate,
     returned |-> returned, pc |-> pc]

(* Tokenizer(src) : source(src), pos(0), line(1), column(1), then the     *)
(* entry of its first tokenize call: std::vector<Token> tokens;           *)
Fresh(src) ==
    [source |-> src, pos |-> 0, line |-> 1, column |-> 1, tokens |-> <<>>,
     value |-> <<>>, startLine |-> 1, startCol |-> 1, startPos |-> 0,
     fate |-> <<>>, returned |-> <<>>, pc |-> "tokenize"]

(* this instance is r *)
Is(r) ==
    /\ source = r.source
    /\ pos = r.pos
    /\ line = r.line
    /\ column = r.column
    /\ tokens = r.tokens
    /\ value = r.value
    /\ startLine = r.startLine
    /\ startCol = r.startCol
    /\ startPos = r.startPos
    /\ fate = r.fate
    /\ returned = r.returned
    /\ pc = r.pc

Init ==
    /\ \E src \in Inputs : Is(Fresh(src))
    /\ other = Fresh(<<>>)
    /\ active = 1

(* while (pos < source.length()) *)
LoopTest ==
    /\ pc = "tokenize"
    /\ pc' = IF pos < Len(source) THEN "skipWhitespace" ELSE "eof"
    /\ Stay
    /\ UNCHANGED <<Outside, tokens, Locals>>

(* skipWhitespace: one test of the loop and, if it holds, one iteration *)
skipWhitespace ==
    /\ pc = "skipWhitespace"
    /\ IF pos < Len(source) /\ isspace(peek(0))
       THEN Consume(advance(Cur), <<"whitespace">>) /\ pc' = pc
       ELSE Stay /\ pc' = "skipComments"
    /\ UNCHANGED <<Outside, tokens, Locals>>

(* skipComments: the two tests, and the opening of a block comment *)
skipComments ==
    /\ pc = "skipComments"
    /\ IF peek(0) = "/" /\ peek(1) = "/"
       THEN Stay /\ pc' = "lineComment"
       ELSE IF peek(0) = "/" /\ peek(1) = "*"
            THEN /\ Consume(advance(advance(Cur)), <<"comment", "comment">>)
                 /\ pc' = "blockComment"
            ELSE Stay /\ pc' = "dispatch"
    /\ UNCHANGED <<Outside, tokens, Locals>>

(* the loop of a line comment without its end-of-input test *)
lineComment_NoEndTest ==
    /\ pc = "lineComment"
    /\ IF peek(0) # NEWLINE
       THEN Consume(advance(Cur), <<"comment">>) /\ pc' = pc
       ELSE Stay /\ pc' = "dispatch"
    /\ UNCHANGED <<Outside, tokens, Locals>>

(* while (peek() != '\n' && peek() != '\0') advance(); *)
lineComment ==
    /\ pc = "lineComment"
    /\ IF peek(0) # NEWLINE /\ peek(0) # NUL
       THEN Consume(advance(Cur), <<"comment">>) /\ pc' = pc
       ELSE Stay /\ pc' = "dispatch"
    /\ UNCHANGED <<Outside, tokens, Locals>>

(* while (!(peek() == '*' && peek(1) == '/') && peek() != '\0') advance(); *)
blockComment ==
    /\ pc = "blockComment"
    /\ IF ~(peek(0) = "*" /\ peek(1) = "/") /\ peek(0) # NUL
       THEN Consume(advance(Cur), <<"comment">>) /\ pc' = pc
       ELSE Stay /\ pc' = "blockCommentEnd"
    /\ UNCHANGED <<Outside, tokens, Locals>>

(* if (peek() != '\0') { advance(); advance(); } *)
blockCommentEnd ==
    /\ pc = "blockCommentEnd"
    /\ IF peek(0) # NUL
       THEN Consume(advance(advance(Cur)), <<"comment", "comment">>)
       ELSE Stay
    /\ pc' = "dispatch"
    /\ UNCHANGED <<Outside, tokens, Locals>>

isPunctuation(c) == c \in {";", ",", "(", ")", "{", "}", "[", "]"}

isOperatorChar(c) ==
    c \in {"+", "-", "*", "/", "=", "<", ">", "!", "&", "|", ":"}

(* the if-chain without its test for the underscore *)
Classify_NoUnderscore(c) ==
    IF isalpha(c) THEN "readIdentifierOrKeyword"
    ELSE IF isdigit(c) THEN "readNumber"
    ELSE IF c = QUOTE THEN "readString"
    ELSE IF isPunctuation(c) THEN "punctuation"
    ELSE IF isOperatorChar(c) THEN "readOperator"
    ELSE "unknown"

(* the sub-scanner the if-chain of tokenize selects for the character c *)
Classify(c) ==
    IF isalpha(c) \/ c = "_" THEN "readIdentifierOrKeyword"
    ELSE IF isdigit(c) THEN "readNumber"
    ELSE IF c = QUOTE THEN "readString"
    ELSE IF isPunctuation(c) THEN "punctuation"
    ELSE IF isOperatorChar(c) THEN "readOperator"
    ELSE "unknown"

(* if (pos >= source.length()) break; char c = peek(); ... if-chain *)
dispatch ==
    /\ pc = "dispatch"
    /\ IF pos >= Len(source)
       THEN pc' = "eof" /\ UNCHANGED <<startLine, startCol, startPos>>
       ELSE pc' = Classify(peek(0)) /\ MarkStart
    /\ Stay
    /\ UNCHANGED <<Outside, tokens, value>>

(* the punctuation token inserted at the front of the vector *)
punctuation_PushFront ==
    /\ pc = "punctuation"
    /\ Consume(advance(Cur), <<"text">>)
    /\ value' = <<advanceChar(Cur)>>
    /\ tokens' = <<Token(PUNCTUATION, value', startLine, startCol, startPos,
                         pos')>> \o tokens
    /\ pc' = "tokenize"
    /\ UNCHANGED <<Outside, startLine, startCol, startPos>>

(* std::string value(1, advance()); push_back(Token(PUNCTUATION, ...)) *)
punctuation ==
    /\ pc = "punctuation"
    /\ Consume(advance(Cur), <<"text">>)
    /\ value' = <<advanceChar(Cur)>>
    /\ tokens' = Append(tokens, Token(PUNCTUATION, value', startLine, startCol,
                                      startPos, pos'))
    /\ pc' = "tokenize"
    /\ UNCHANGED <<Outside, startLine, startCol, startPos>>

(* std::string value(1, advance()); push_back(Token(UNKNOWN, ...)) *)
unknown ==
    /\ pc = "unknown"
    /\ Consume(advance(Cur), <<"text">>)
    /\ value' = <<advanceChar(Cur)>>
    /\ tokens' = Append(tokens, Token(UNKNOWN, value', startLine, startCol,
                                      startPos, pos'))
    /\ pc' = "tokenize"
    /\ UNCHANGED <<Outside, startLine, startCol, startPos>>

(* the end marker placed at the start of the last token scanned *)
pushEndOfFile_AtLastStart ==
    /\ pc = "eof"
    /\ tokens' = Append(tokens, Token(END_OF_FILE, <<>>, startLine, startCol,
                                      pos, pos))
    /\ returned' = Append(returned, tokens')
    /\ pc' = "done"
    /\ Stay
    /\ UNCHANGED <<source, other, active, Locals>>

(* tokens.push_back(Token(END_OF_FILE, "", line, column)); return tokens; *)
pushEndOfFile ==
    /\ pc = "eof"
    /\ tokens' = Append(tokens, Token(END_OF_FILE, <<>>, line, column, pos, pos))
    /\ returned' = Append(returned, tokens')
    /\ pc' = "done"
    /\ Stay
    /\ UNCHANGED <<source, other, active, Locals>>

(* ---------------------------------------------------------------------- *)
(* The sub-scanners.                                                       *)
(* ---------------------------------------------------------------------- *)
(* the locals of a sub-scanner at its entry *)
EnterScanner(next) ==
    /\ MarkStart
    /\ value' = <<>>
    /\ pc' = next

(* the run of an identifier tested with isalpha in place of isalnum *)
isIdentifierChar_AlphaOnly(c) == isalpha(c) \/ c = "_"

isIdentifierChar(c) == isalnum(c) \/ c = "_"

(* keywords.count(value) ? KEYWORD : IDENTIFIER *)
identifierType(v) == IF v \in keywords THEN KEYWORD ELSE IDENTIFIER

readIdentifierOrKeyword ==
    /\ pc = "readIdentifierOrKeyword"
    /\ EnterScanner("readIdentifierLoop")
    /\ Stay
    /\ UNCHANGED <<Outside, tokens>>

readIdentifierLoop ==
    /\ pc = "readIdentifierLoop"
    /\ IF isIdentifierChar(peek(0))
       THEN /\ value' = Append(value, advanceChar(Cur))
            /\ Consume(advance(Cur), <<"text">>)
            /\ pc' = pc
            /\ UNCHANGED tokens
       ELSE /\ tokens' = Append(tokens, Token(identifierType(value), value,
                                              startLine, startCol, startPos, pos))
            /\ pc' = "tokenize"
            /\ Stay
            /\ UNCHANGED value
    /\ UNCHANGED <<Outside, startLine, startCol, startPos>>

(* the run of a number without the dot *)
isNumberChar_DigitsOnly(c) == isdigit(c)

isNumberChar(c) == isdigit(c) \/ c = "."

readNumber ==
    /\ pc = "readNumber"
    /\ EnterScanner("readNumberLoop")
    /\ Stay
    /\ UNCHANGED <<Outside, tokens>>

readNumberLoop ==
    /\ pc = "readNumberLoop"
    /\ IF isNumberChar(peek(0))
       THEN /\ value' = Append(value, advanceChar(Cur))
            /\ Consume(advance(Cur), <<"text">>)
            /\ pc' = pc
            /\ UNCHANGED tokens
       ELSE /\ tokens' = Append(tokens, Token(NUMBER, value, startLine,
                                              startCol, startPos, pos))
            /\ pc' = "tokenize"
            /\ Stay
            /\ UNCHANGED value
    /\ UNCHANGED <<Outside, startLine, startCol, startPos>>

(* the locals, then advance(); // consume opening quote *)
readString ==
    /\ pc = "readString"
    /\ EnterScanner("readStringLoop")
    /\ Consume(advance(Cur), <<"dropped">>)
    /\ UNCHANGED <<Outside, tokens>>

(* the character an escape sequence would stand for, were it translated *)
Translated(c) ==
    IF c = "n" THEN NEWLINE ELSE IF c = "t" THEN "\t" ELSE IF c = "a" THEN "BEL"
    ELSE c

(* the loop of readString with escape sequences translated *)
readStringLoop_Translate ==
    /\ pc = "readStringLoop"
    /\ IF peek(0) # QUOTE /\ peek(0) # NUL
       THEN /\ IF peek(0) = BACKSLASH
               THEN LET c1 == advance(Cur) IN
                    IF peekAt(c1, 0) # NUL
                    THEN /\ value' = Append(value, Translated(advanceChar(c1)))
                         /\ Consume(advance(c1), <<"dropped", "text">>)
                    ELSE /\ value' = value
                         /\ Consume(c1, <<"dropped">>)
               ELSE /\ value' = Append(value, advanceChar(Cur))
                    /\ Consume(advance(Cur), <<"text">>)
            /\ pc' = pc
       ELSE /\ pc' = "readStringEnd"
            /\ Stay
            /\ UNCHANGED value
    /\ UNCHANGED <<Outside, tokens, startLine, startCol, startPos>>

(* one test of the loop of readString and, if it holds, one iteration *)
readStringLoop ==
    /\ pc = "readStringLoop"
    /\ IF peek(0) # QUOTE /\ peek(0) # NUL
       THEN /\ IF peek(0) = BACKSLASH
               THEN LET c1 == advance(Cur) IN
                    IF peekAt(c1, 0) # NUL
                    THEN /\ value' = Append(value, advanceChar(c1))
                         /\ Consume(advance(c1), <<"dropped", "text">>)
                    ELSE /\ value' = value
                         /\ Consume(c1, <<"dropped">>)
               ELSE /\ value' = Append(value, advanceChar(Cur))
                    /\ Consume(advance(Cur), <<"text">>)
            /\ pc' = pc
       ELSE /\ pc' = "readStringEnd"
            /\ Stay
            /\ UNCHANGED value
    /\ UNCHANGED <<Outside, tokens, startLine, startCol, startPos>>

(* if (peek() == '"') advance(); return Token(STRING_LITERAL, ...) *)
readStringEnd ==
    /\ pc = "readStringEnd"
    /\ IF peek(0) = QUOTE
       THEN Consume(advance(Cur), <<"dropped">>)
       ELSE Stay
    /\ tokens' = Append(tokens, Token(STRING_LITERAL, value, startLine,
                                      startCol, startPos, pos'))
    /\ pc' = "tokenize"
    /\ UNCHANGED <<Outside, Locals>>

(* the operator table without its entry -> *)
isTwoCharOperator_NoArrow(c, next) ==
    \/ c = "=" /\ next = "="
    \/ c = "!" /\ next = "="
    \/ c = "<" /\ next = "="
    \/ c = ">" /\ next = "="
    \/ c = "+" /\ next = "+"
    \/ c = "-" /\ next = "-"
    \/ c = "&" /\ next = "&"
    \/ c = "|" /\ next = "|"
    \/ c = ":" /\ next = ":"

(* the operator table without its entry <= *)
isTwoCharOperator_NoLessEqual(c, next) ==
    \/ c = "=" /\ next = "="
    \/ c = "!" /\ next = "="
    \/ c = ">" /\ next = "="
    \/ c = "+" /\ next = "+"
    \/ c = "-" /\ next = "-"
    \/ c = "&" /\ next = "&"
    \/ c = "|" /\ next = "|"
    \/ c = "-" /\ next = ">"
    \/ c = ":" /\ next = ":"

(* the condition "Two-character operators" of readOperator *)
isTwoCharOperator(c, next) ==
    \/ c = "=" /\ next = "="
    \/ c = "!" /\ next = "="
    \/ c = "<" /\ next = "="
    \/ c = ">" /\ next = "="
    \/ c = "+" /\ next = "+"
    \/ c = "-" /\ next = "-"
    \/ c = "&" /\ next = "&"
    \/ c = "|" /\ next = "|"
    \/ c = "-" /\ next = ">"
    \/ c = ":" /\ next = ":"

readOperator ==
    /\ pc = "readOperator"
    /\ MarkStart
    /\ LET c1 == advance(Cur) IN
       IF isTwoCharOperator(peek(0), peek(1))
       THEN /\ value' = <<advanceChar(Cur), advanceChar(c1)>>
            /\ Consume(advance(c1), <<"text", "text">>)
       ELSE /\ value' = <<advanceChar(Cur)>>
            /\ Consume(c1, <<"text">>)
    /\ tokens' = Append(tokens, Token(OPERATOR, value', startLine', startCol',
                                      startPos', pos'))
    /\ pc' = "tokenize"
    /\ UNCHANGED Outside

Next ==
    \/ LoopTest
    \/ skipWhitespace
    \/ skipComments
    \/ lineComment
    \/ blockComment
    \/ blockCommentEnd
    \/ dispatch
    \/ punctuation
    \/ unknown
    \/ readIdentifierOrKeyword
    \/ readIdentifierLoop
    \/ readNumber
    \/ readNumberLoop
    \/ readString
    \/ readStringLoop
    \/ readStringEnd
    \/ readOperator
    \/ pushEndOfFile

Spec == Init /\ [][Next]_vars

(* a further call that rewinds the cursor and scans the source again *)
tokenizeAgain_Rewind ==
    /\ pc = "done"
    /\ Len(returned) < MaxCalls
    /\ tokens' = <<>>
    /\ pc' = "tokenize"
    /\ pos' = 0
    /\ line' = 1
    /\ column' = 1
    /\ fate' = <<>>
    /\ UNCHANGED <<Outside, Locals>>

(* a further call of tokenize on the same instance: the entry of the      *)
(* function, std::vector<Token> tokens;                                    *)
tokenizeAgain ==
    /\ pc = "done"
    /\ Len(returned) < MaxCalls
    /\ tokens' = <<>>
    /\ pc' = "tokenize"
    /\ Stay
    /\ UNCHANGED <<Outside, Locals>>

ReuseNext == Next \/ tokenizeAgain

ReuseSpec == Init /\ [][ReuseNext]_vars

(* the switch between instances whose cursor is shared by all instances   *)
(* (static members pos, line, column)                                      *)
Switch_SharedCursor ==
    /\ other' = Rec
    /\ active' = 3 - active
    /\ source' = other.source
    /\ pos' = pos
    /\ line' = line
    /\ column' = column
    /\ tokens' = other.tokens
    /\ value' = other.value
    /\ startLine' = other.startLine
    /\ startCol' = other.startCol
    /\ startPos' = other.startPos
    /\ fate' = other.fate
    /\ returned' = other.returned
    /\ pc' = other.pc

(* The caller stops running this instance and runs the other one: each    *)
(* instance keeps its own source, pos, line, column and locals.            *)
Switch ==
    /\ other' = Rec
    /\ active' = 3 - active
    /\ source' = other.source
    /\ pos' = other.pos
    /\ line' = other.line
    /\ column' = other.column
    /\ tokens' = other.tokens
    /\ value' = other.value
    /\ startLine' = other.startLine
    /\ startCol' = other.startCol
    /\ startPos' = other.startPos
    /\ fate' = other.fate
    /\ returned' = other.returned
    /\ pc' = other.pc

ScnStringHash ==
    <<QUOTE, "a", QUOTE, "#">>
ScnCommentOnly ==
    <<"/", "/", "c", NEWLINE>>
ScnBlockThenDot ==
    <<"/", "*", "*", "/", "1", ".">>

PairInputs ==
    {ScnDecl, ScnStringHash, ScnCommentOnly, ScnBlockThenDot}

PairInit ==
    /\ \E src \in PairInputs : Is(Fresh(src))
    /\ other \in {Fresh(src) : src \in PairInputs}
    /\ active = 1

PairNext == Next \/ Switch

PairSpec == PairInit /\ [][PairNext]_vars

(* tokenize is one synchronous call: once started it runs to its return *)
FairSpec == Spec /\ WF_vars(Next)

TypeOK ==
    /\ pos \in 0..Len(source)
    /\ Len(fate) = pos
    /\ \A i \in 1..Len(tokens) : tokens[i].type \in TokenType

(* ---------------------------------------------------------------------- *)
(* Properties.                                                             *)
(* ---------------------------------------------------------------------- *)
Done == pc = "done"

(* the kinds and texts of a token sequence *)
Summary(ts) == [i \in 1..Len(ts) |-> <<ts[i].type, ts[i].value>>]

Max(S) == CHOOSE m \in S : \A n \in S : n <= m

NewlinesBefore(s, off) == {i \in 1..off : s[i] = NEWLINE}

(* 1-based line of the character at offset off of s *)
LineOf(s, off) == 1 + Cardinality(NewlinesBefore(s, off))

(* 1-based column of the character at offset off of s *)
ColOf(s, off) ==
    IF NewlinesBefore(s, off) = {}
    THEN off + 1
    ELSE off - Max(NewlinesBefore(s, off)) + 1

Whitespace == {" ", "\t", NEWLINE, VT, "\f", "\r"}

(* C1: for every input, tokenize terminates and the last token of the     *)
(* returned sequence has kind EndOfFile.                                   *)
C1_TerminatesWithEndOfFile ==
    <>(Done /\ Len(tokens) >= 1 /\ tokens[Len(tokens)].type = END_OF_FILE)

C1_Witness ==
    /\ Done
    /\ Len(tokens) >= 3
    /\ tokens[Len(tokens)].type = END_OF_FILE
    /\ \E i \in 1..Len(tokens) : tokens[i].type = UNKNOWN
    /\ \E i \in 1..Len(fate) : fate[i] = "comment"

(* C2: whitespace never becomes a token, also after a comment: no token   *)
(* of a kind other than StringLiteral has a whitespace character in its   *)
(* text, and a line comment, its newline and x yield Identifier(x),       *)
(* EndOfFile.                                                              *)
C2_WhitespaceNeverToken ==
    /\ \A i \in 1..Len(tokens) :
          tokens[i].type # STRING_LITERAL =>
             \A k \in 1..Len(tokens[i].value) :
                tokens[i].value[k] \notin Whitespace
    /\ (Done /\ source = ScnLineComment) =>
          Summary(tokens) = << <<IDENTIFIER, <<"x">> >>, <<END_OF_FILE, <<>> >> >>

CommentStartsAt(s, off) ==
    /\ off + 2 <= Len(s)
    /\ s[off + 1] = "/"
    /\ s[off + 2] \in {"/", "*"}

(* C3: whenever the dispatch loop classifies a character no comment       *)
(* starts at the cursor, so adjacent comments yield no token: two         *)
(* adjacent block comments and x yield Identifier(x), EndOfFile.          *)
C3_NoCommentAtDispatch ==
    /\ (pc = "dispatch" /\ pos < Len(source)) => ~CommentStartsAt(source, pos)
    /\ (Done /\ source = ScnAdjacentComments) =>
          Summary(tokens) = << <<IDENTIFIER, <<"x">> >>, <<END_OF_FILE, <<>> >> >>

(* the first source character of a token: the opening quote of a string   *)
(* literal, else the first character of the text                          *)
FirstCharAt(t) ==
    /\ t.from < Len(source)
    /\ IF t.type = STRING_LITERAL
       THEN source[t.from + 1] = QUOTE
       ELSE t.value # <<>> /\ source[t.from + 1] = t.value[1]

(* C4: every token except EndOfFile records the 1-based line and column   *)
(* of its first source character: line = 1 + newlines before it, column   *)
(* = 1 + characters since the last newline.                                *)
C4_TokenPosition ==
    \A i \in 1..Len(tokens) :
       tokens[i].type # END_OF_FILE =>
          /\ FirstCharAt(tokens[i])
          /\ tokens[i].line = LineOf(source, tokens[i].from)
          /\ tokens[i].column = ColOf(source, tokens[i].from)

C4_Witness ==
    /\ Done
    /\ \E i \in 1..Len(tokens) :
          /\ tokens[i].type = IDENTIFIER
          /\ tokens[i].line = 2
          /\ tokens[i].column = 3
          /\ fate[tokens[i].from] = "comment"

TwoCharOperators ==
    { <<"=", "=">>, <<"!", "=">>, <<"<", "=">>, <<">", "=">>, <<"+", "+">>,
      <<"-", "-">>, <<"&", "&">>, <<"|", "|">>, <<"-", ">">>, <<":", ":">> }

(* C5: an Operator token that starts at a character c whose pair with the *)
(* next character is in the table is exactly those two characters, and    *)
(* otherwise exactly c; == is one token and a->b::c yields a, ->, b, ::,  *)
(* c, EndOfFile.                                                           *)
C5_TwoCharOperatorsFirst ==
    /\ \A i \in 1..Len(tokens) :
          tokens[i].type = OPERATOR =>
             LET f == tokens[i].from IN
             IF f + 2 <= Len(source)
                /\ <<source[f + 1], source[f + 2]>> \in TwoCharOperators
             THEN tokens[i].value = <<source[f + 1], source[f + 2]>>
             ELSE tokens[i].value = <<source[f + 1]>>
    /\ (Done /\ source = ScnEqEq) =>
          Summary(tokens) = << <<OPERATOR, <<"=", "=">> >>, <<END_OF_FILE, <<>> >> >>
    /\ (Done /\ source = ScnArrowScope) =>
          Summary(tokens) =
             << <<IDENTIFIER, <<"a">> >>, <<OPERATOR, <<"-", ">">> >>,
                <<IDENTIFIER, <<"b">> >>, <<OPERATOR, <<":", ":">> >>,
                <<IDENTIFIER, <<"c">> >>, <<END_OF_FILE, <<>> >> >>

C5_Witness ==
    /\ Done
    /\ source = ScnArrowScope
    /\ Len(tokens) = 6

(* C6 as stated: <<= is scanned as the three one-character operators <,   *)
(* <, = and then EndOfFile.                                                *)
C6_ThreeSingleOperators ==
    (Done /\ source = ScnShiftAssign) =>
       Summary(tokens) =
          << <<OPERATOR, <<"<">> >>, <<OPERATOR, <<"<">> >>,
             <<OPERATOR, <<"=">> >>, <<END_OF_FILE, <<>> >> >>

(* C6 amended: <<= is not a unit; it is scanned as the operator < and     *)
(* then the two-character operator <=, then EndOfFile.                     *)
C6_LessThenLessEqual ==
    (Done /\ source = ScnShiftAssign) =>
       Summary(tokens) =
          << <<OPERATOR, <<"<">> >>, <<OPERATOR, <<"<", "=">> >>,
             <<END_OF_FILE, <<>> >> >>

C6_Witness ==
    /\ Done
    /\ source = ScnShiftAssign
    /\ Len(tokens) = 3

AlnumOrUnderscore == Lower \cup Upper \cup Digits \cup {"_"}

(* C7: a Keyword or Identifier token is the maximal run of alphanumeric   *)
(* and underscore characters at its start, the character after it is      *)
(* never alphanumeric or underscore, and its kind is Keyword exactly when *)
(* the whole lexeme is in the keyword set: intx and _if are Identifiers.  *)
C7_MaximalRunAndKeyword ==
    /\ \A i \in 1..Len(tokens) :
          tokens[i].type \in {KEYWORD, IDENTIFIER} =>
             /\ tokens[i].to > tokens[i].from
             /\ tokens[i].value = SubSeq(source, tokens[i].from + 1, tokens[i].to)
             /\ \A k \in 1..Len(tokens[i].value) :
                   tokens[i].value[k] \in AlnumOrUnderscore
             /\ tokens[i].to < Len(source) =>
                   source[tokens[i].to + 1] \notin AlnumOrUnderscore
             /\ tokens[i].type = KEYWORD <=> tokens[i].value \in keywords
    /\ (Done /\ source = ScnKeywordPrefix) =>
          Summary(tokens) =
             << <<IDENTIFIER, <<"i", "n", "t", "x">> >>, <<END_OF_FILE, <<>> >> >>
    /\ (Done /\ source = ScnUnderscoreIf) =>
          Summary(tokens) =
             << <<IDENTIFIER, <<"_", "i", "f">> >>, <<END_OF_FILE, <<>> >> >>

C7_Witness ==
    /\ Done
    /\ \E i \in 1..Len(tokens) :
          tokens[i].type = KEYWORD /\ tokens[i].value = <<"i", "f">>
    /\ \E i \in 1..Len(tokens) : tokens[i].type = IDENTIFIER

RECURSIVE ClosingQuote(_, _)
(* the 1-based index of the first quote of s at or after index i that no  *)
(* backslash escapes, 0 if there is none                                  *)
ClosingQuote(s, i) ==
    IF i > Len(s) THEN 0
    ELSE IF s[i] = BACKSLASH THEN ClosingQuote(s, i + 2)
    ELSE IF s[i] = QUOTE THEN i
    ELSE ClosingQuote(s, i + 1)

RECURSIVE DeEscape(_, _, _)
(* s[i..e] with each escaping backslash removed and the character after   *)
(* it kept                                                                 *)
DeEscape(s, i, e) ==
    IF i > e THEN <<>>
    ELSE IF s[i] = BACKSLASH
         THEN IF i + 1 <= e
              THEN <<s[i + 1]>> \o DeEscape(s, i + 2, e)
              ELSE <<>>
         ELSE <<s[i]>> \o DeEscape(s, i + 1, e)

(* C8: for a terminated string literal the StringLiteral token spans the  *)
(* literal up to its closing quote and its text is the characters between *)
(* the quotes with each escaping backslash removed; "ab\"cd" yields one   *)
(* StringLiteral ab"cd.                                                    *)
C8_TerminatedString ==
    /\ \A i \in 1..Len(tokens) :
          tokens[i].type = STRING_LITERAL =>
             LET e == ClosingQuote(source, tokens[i].from + 2) IN
             e # 0 =>
                /\ tokens[i].to = e
                /\ tokens[i].value = DeEscape(source, tokens[i].from + 2, e - 1)
    /\ (Done /\ source = ScnEscapedQuote) =>
          Summary(tokens) =
             << <<STRING_LITERAL, <<"a", "b", QUOTE, "c", "d">> >>,
                <<END_OF_FILE, <<>> >> >>

(* C9: the returned sequence has exactly one EndOfFile token, the last    *)
(* one, with empty text, at the final cursor position, the whole input    *)
(* being consumed; no EndOfFile is emitted before the return; the empty   *)
(* input yields exactly EndOfFile at line 1, column 1.                    *)
C9_OneEndOfFileAtEnd ==
    LET eofs == {i \in 1..Len(tokens) : tokens[i].type = END_OF_FILE} IN
    /\ ~Done => eofs = {}
    /\ Done =>
          /\ eofs = {Len(tokens)}
          /\ Len(tokens) >= 1
          /\ tokens[Len(tokens)].value = <<>>
          /\ pos = Len(source)
          /\ tokens[Len(tokens)].line = line
          /\ tokens[Len(tokens)].column = column
          /\ tokens[Len(tokens)].line = LineOf(source, Len(source))
          /\ tokens[Len(tokens)].column = ColOf(source, Len(source))
          /\ source = <<>> =>
                Summary(tokens) = << <<END_OF_FILE, <<>> >> >>
                /\ tokens[1].line = 1 /\ tokens[1].column = 1

C9_Witness ==
    /\ Done
    /\ Len(tokens) >= 3
    /\ tokens[Len(tokens)].type = END_OF_FILE
    /\ tokens[Len(tokens)].line = 2
    /\ tokens[Len(tokens)].column >= 2

RECURSIVE Flatten(_, _)
(* the texts of the tokens ts[i..] concatenated in sequence order *)
Flatten(ts, i) ==
    IF i > Len(ts) THEN <<>> ELSE ts[i].value \o Flatten(ts, i + 1)

Skipped == {"whitespace", "comment"}

RECURSIVE Rebuild(_, _, _)
(* the token texts t[k..] with the skipped spans reinserted at their      *)
(* places, from source index i on                                         *)
Rebuild(t, i, k) ==
    IF i > Len(fate) THEN <<>>
    ELSE IF fate[i] \in Skipped THEN <<source[i]>> \o Rebuild(t, i + 1, k)
    ELSE IF fate[i] = "text" THEN <<t[k]>> \o Rebuild(t, i + 1, k + 1)
    ELSE Rebuild(t, i + 1, k)

RECURSIVE Without(_, _, _)
(* s[i..] without the characters whose index is in D *)
Without(s, i, D) ==
    IF i > Len(s) THEN <<>>
    ELSE IF i \in D THEN Without(s, i + 1, D)
    ELSE <<s[i]>> \o Without(s, i + 1, D)

(* every token text character was taken from the source exactly once *)
TextsAccounted ==
    /\ Len(fate) = Len(source)
    /\ Cardinality({i \in 1..Len(fate) : fate[i] = "text"})
          = Len(Flatten(tokens, 1))

Dropped == {i \in 1..Len(fate) : fate[i] = "dropped"}

(* the indexes of the escaping backslashes dropped inside string literals *)
(* and of the characters they escape                                       *)
EscapedPairs ==
    {i \in 1..Len(source) :
        \/ i \in Dropped /\ source[i] = BACKSLASH
        \/ i > 1 /\ (i - 1) \in Dropped /\ source[i - 1] = BACKSLASH}

(* C10 as stated: the token texts with the skipped spans reinserted are   *)
(* the input minus the escaped-backslash pairs inside strings, and only   *)
(* the characters of those pairs are in neither a text nor a skipped span *)
C10_RoundTripMinusPairs ==
    Done =>
       /\ TextsAccounted
       /\ Dropped \subseteq EscapedPairs
       /\ Rebuild(Flatten(tokens, 1), 1, 1) = Without(source, 1, EscapedPairs)

(* index i is the opening quote, the closing quote or an escaping         *)
(* backslash of the string literal token t                                 *)
QuoteOrEscapeOf(t, i) ==
    /\ t.type = STRING_LITERAL
    /\ t.from < i
    /\ i <= t.to
    /\ \/ i = t.from + 1 /\ source[i] = QUOTE
       \/ i = t.to /\ i > t.from + 1 /\ source[i] = QUOTE
       \/ source[i] = BACKSLASH

(* C10 amended: the token texts with the skipped spans reinserted are the *)
(* input minus the delimiting quotes and the escaping backslashes of the  *)
(* string literals (the escaped character is kept); those are the only    *)
(* characters in neither a text nor a skipped span, and nothing is        *)
(* duplicated or reordered.                                                *)
C10_RoundTripMinusQuotesAndEscapes ==
    Done =>
       /\ TextsAccounted
       /\ \A i \in Dropped :
             \E j \in 1..Len(tokens) : QuoteOrEscapeOf(tokens[j], i)
       /\ Rebuild(Flatten(tokens, 1), 1, 1) = Without(source, 1, Dropped)

C10_Witness ==
    /\ Done
    /\ \E i \in Dropped : source[i] = BACKSLASH
    /\ \E i \in Dropped : source[i] = QUOTE /\ i > 1
    /\ \E i \in 1..Len(fate) : fate[i] = "text" /\ source[i] = QUOTE

(* C11: a string literal with no unescaped closing quote yields exactly   *)
(* one StringLiteral token holding the characters accumulated up to the   *)
(* end of input (a trailing backslash is consumed and adds nothing), the  *)
(* next token is EndOfFile, and the cursor never passes the input length. *)
C11_UnterminatedString ==
    /\ pos <= Len(source)
    /\ \A i \in 1..Len(tokens) :
          (tokens[i].type = STRING_LITERAL
           /\ ClosingQuote(source, tokens[i].from + 2) = 0) =>
             /\ tokens[i].to = Len(source)
             /\ tokens[i].value =
                   DeEscape(source, tokens[i].from + 2, Len(source))
             /\ Len(tokens) > i =>
                   Len(tokens) = i + 1 /\ tokens[i + 1].type = END_OF_FILE

(* no closer of a block comment follows the opener at offset p *)
NoCloserAfter(p) ==
    \A i \in (p + 3)..(Len(source) - 1) : ~(source[i] = "*" /\ source[i + 1] = "/")

(* the cursor stood at offset p between two tokens: a token starts at p,  *)
(* or the comment skipper began to skip at p                               *)
CursorBetweenTokensAt(p) ==
    \/ \E j \in 1..Len(tokens) : tokens[j].from = p
    \/ /\ p < Len(fate)
       /\ fate[p + 1] = "comment"
       /\ p > 0 => fate[p] # "comment"

(* C12: a block comment opener at the cursor between tokens with no       *)
(* closer after it consumes all remaining source: no token is emitted for *)
(* it and the only token after it is EndOfFile at the end of the input.   *)
C12_UnterminatedBlockComment ==
    Done =>
       \A p \in 0..(Len(source) - 2) :
          (/\ source[p + 1] = "/"
           /\ source[p + 2] = "*"
           /\ CursorBetweenTokensAt(p)
           /\ NoCloserAfter(p)) =>
             \A j \in 1..Len(tokens) :
                tokens[j].to > p =>
                   /\ tokens[j].type = END_OF_FILE
                   /\ tokens[j].from = Len(source)
                   /\ tokens[j].line = LineOf(source, Len(source))
                   /\ tokens[j].column = ColOf(source, Len(source))

LetterOrUnderscore == Lower \cup Upper \cup {"_"}
PunctuationChars == {";", ",", "(", ")", "{", "}", "[", "]"}
OperatorChars == {"+", "-", "*", "/", "=", "<", ">", "!", "&", "|", ":"}

(* the token kinds the dispatch rule gives to a first character *)
KindsFor(c) ==
    IF c \in LetterOrUnderscore THEN {KEYWORD, IDENTIFIER}
    ELSE IF c \in Digits THEN {NUMBER}
    ELSE IF c = QUOTE THEN {STRING_LITERAL}
    ELSE IF c \in PunctuationChars THEN {PUNCTUATION}
    ELSE IF c \in OperatorChars THEN {OPERATOR}
    ELSE {UNKNOWN}

(* C13: the first source character of every token except EndOfFile fixes  *)
(* its kind and shape: letter or underscore <=> Keyword or Identifier,     *)
(* digit <=> Number, double-quote <=> StringLiteral, punctuation           *)
(* character <=> Punctuation of that one character, operator character    *)
(* <=> Operator of 1 or 2 characters, anything else <=> Unknown of that    *)
(* one character; int x = 42; yields Keyword int, Identifier x, Operator   *)
(* =, Number 42, Punctuation ;, EndOfFile.                                 *)
C13_DispatchByFirstChar ==
    /\ \A i \in 1..Len(tokens) :
          tokens[i].type # END_OF_FILE =>
             LET c == source[tokens[i].from + 1] IN
             /\ tokens[i].from < Len(source)
             /\ tokens[i].type \in KindsFor(c)
             /\ tokens[i].type \in {PUNCTUATION, UNKNOWN} =>
                   tokens[i].value = <<c>> /\ tokens[i].to = tokens[i].from + 1
             /\ tokens[i].type = OPERATOR =>
                   /\ Len(tokens[i].value) \in {1, 2}
                   /\ tokens[i].value[1] = c
                   /\ tokens[i].to = tokens[i].from + Len(tokens[i].value)
    /\ (Done /\ source = ScnDecl) =>
          Summary(tokens) =
             << <<KEYWORD, <<"i", "n", "t">> >>, <<IDENTIFIER, <<"x">> >>,
                <<OPERATOR, <<"=">> >>, <<NUMBER, <<"4", "2">> >>,
                <<PUNCTUATION, <<";">> >>, <<END_OF_FILE, <<>> >> >>

C13_Witness ==
    /\ Done
    /\ source = ScnDecl
    /\ Len(tokens) = 6

(* C14: in every state of a scan line = 1 + the number of newlines in the *)
(* consumed prefix and column = 1 + the number of characters consumed     *)
(* since the last consumed newline, inside comments and strings alike.    *)
C14_CursorPosition ==
    /\ line = LineOf(source, pos)
    /\ column = ColOf(source, pos)

C14_Witness ==
    /\ pc = "readStringLoop"
    /\ line = 2
    /\ column >= 2
    /\ pos >= 2
    /\ fate[pos - 1] = "dropped"
    /\ source[pos - 1] = BACKSLASH

DigitsAndDot == Digits \cup {"."}

(* C16: a Number token starts at a digit, is exactly the maximal run of   *)
(* digits and dots there, and is followed by neither; a dot that starts a *)
(* token is a one-character Unknown token; 1.2.3 and 1.. are one Number   *)
(* each and 42abc is Number 42, Identifier abc.                            *)
C16_NumberRun ==
    /\ \A i \in 1..Len(tokens) :
          /\ tokens[i].type = NUMBER =>
                /\ tokens[i].to > tokens[i].from
                /\ tokens[i].value =
                      SubSeq(source, tokens[i].from + 1, tokens[i].to)
                /\ tokens[i].value[1] \in Digits
                /\ \A k \in 1..Len(tokens[i].value) :
                      tokens[i].value[k] \in DigitsAndDot
                /\ tokens[i].to < Len(source) =>
                      source[tokens[i].to + 1] \notin DigitsAndDot
          /\ (tokens[i].type # END_OF_FILE /\ source[tokens[i].from + 1] = ".") =>
                tokens[i].type = UNKNOWN /\ tokens[i].value = <<".">>
    /\ (Done /\ source = ScnManyDots) =>
          Summary(tokens) =
             << <<NUMBER, <<"1", ".", "2", ".", "3">> >>, <<END_OF_FILE, <<>> >> >>
    /\ (Done /\ source = ScnTrailingDots) =>
          Summary(tokens) =
             << <<NUMBER, <<"1", ".", ".">> >>, <<END_OF_FILE, <<>> >> >>
    /\ (Done /\ source = ScnDigitsLetters) =>
          Summary(tokens) =
             << <<NUMBER, <<"4", "2">> >>, <<IDENTIFIER, <<"a", "b", "c">> >>,
                <<END_OF_FILE, <<>> >> >>

C16_Witness ==
    /\ Done
    /\ \E i \in 1..Len(tokens) :
          /\ tokens[i].type = NUMBER
          /\ Len(tokens[i].value) = 3
          /\ tokens[i].value[2] = "."
          /\ tokens[i].value[3] = "."
    /\ \E i \in 1..Len(tokens) :
          tokens[i].type = UNKNOWN /\ tokens[i].value = <<".">>

(* the members, locals and output of instance i *)
Inst(i) == IF active = i THEN Rec ELSE other

(* kinds, texts, lines and columns of a token sequence *)
Detail(ts) ==
    [i \in 1..Len(ts) |-> <<ts[i].type, ts[i].value, ts[i].line, ts[i].column>>]

(* what tokenize returns for the source src on an instance run alone *)
Alone(src) ==
    IF src = ScnDecl
    THEN << <<KEYWORD, <<"i", "n", "t">>, 1, 1>>, <<IDENTIFIER, <<"x">>, 1, 5>>,
            <<OPERATOR, <<"=">>, 1, 7>>, <<NUMBER, <<"4", "2">>, 1, 9>>,
            <<PUNCTUATION, <<";">>, 1, 11>>, <<END_OF_FILE, <<>>, 1, 12>> >>
    ELSE IF src = ScnStringHash
    THEN << <<STRING_LITERAL, <<"a">>, 1, 1>>, <<UNKNOWN, <<"#">>, 1, 4>>,
            <<END_OF_FILE, <<>>, 1, 5>> >>
    ELSE IF src = ScnCommentOnly
    THEN << <<UNKNOWN, <<NEWLINE>>, 1, 4>>, <<END_OF_FILE, <<>>, 2, 1>> >>
    ELSE << <<NUMBER, <<"1", ".">>, 1, 5>>, <<END_OF_FILE, <<>>, 1, 7>> >>

ReturnsAsAlone ==
    \A i \in {1, 2} :
       Inst(i).pc = "done" =>
          /\ Detail(Inst(i).tokens) = Alone(Inst(i).source)
          /\ Inst(i).returned = <<Inst(i).tokens>>

(* C15: with the steps of two instances interleaved in any order, each    *)
(* instance returns what it returns when run alone, a step of one         *)
(* instance leaves the other's source, cursor, locals and output          *)
(* unchanged, and a switch between them changes neither.                   *)
C15_InstancesIndependent ==
    [][/\ ReturnsAsAlone
       /\ ReturnsAsAlone'
       /\ active' = active => Inst(3 - active)' = Inst(3 - active)
       /\ active' # active => Inst(1)' = Inst(1) /\ Inst(2)' = Inst(2)]_vars

C15_Witness ==
    /\ active = 2
    /\ pos > 0
    /\ pos < Len(source)
    /\ other.pos > 0
    /\ other.pos < Len(other.source)
    /\ tokens # <<>>
    /\ other.tokens # <<>>
    /\ source # other.source

(* C17: only a closing delimiter or the real end of input ends a string   *)
(* literal or a comment, also when the input contains the NUL character:  *)
(* the loop of a string ends at a quote or at the end, the loop of a      *)
(* block comment at its closer or at the end, the loop of a line comment  *)
(* at a newline or at the end.                                             *)
C17_NulNeverEndsInput ==
    [][/\ (pc = "readStringLoop" /\ pc' = "readStringEnd") =>
             pos = Len(source) \/ source[pos + 1] = QUOTE
       /\ (pc = "blockComment" /\ pc' = "blockCommentEnd") =>
             \/ pos = Len(source)
             \/ /\ pos + 2 <= Len(source)
                /\ source[pos + 1] = "*"
                /\ source[pos + 2] = "/"
       /\ (pc = "lineComment" /\ pc' = "dispatch") =>
             pos = Len(source) \/ source[pos + 1] = NEWLINE]_vars

ScannerPcs ==
    {"readIdentifierOrKeyword", "readIdentifierLoop", "readNumber",
     "readNumberLoop", "readString", "readStringLoop", "readStringEnd",
     "punctuation", "readOperator", "unknown"}

(* peek(k) at the cursor: the character at offset pos + k, the end        *)
(* sentinel beyond the end                                                 *)
LookaheadInBounds ==
    \A k \in {0, 1} :
       peek(k) = IF pos + k < Len(source) THEN source[pos + k + 1] ELSE NUL

(* C18: 0 <= pos <= length always and no step decreases pos; lookahead    *)
(* returns the end sentinel beyond the end and the steps that only look   *)
(* ahead leave the cursor unchanged; advance at the end of input changes  *)
(* nothing; every iteration that classifies a character appends exactly   *)
(* one token and moves pos forward by at least 1.                          *)
C18_CursorForwardInBounds ==
    [][/\ pos \in 0..Len(source)
       /\ pos' \in 0..Len(source)
       /\ pos' >= pos
       /\ LookaheadInBounds
       /\ LookaheadInBounds'
       /\ pc \in {"tokenize", "dispatch"} =>
             pos' = pos /\ line' = line /\ column' = column
       /\ pos = Len(source) => advance(Cur) = Cur /\ advanceChar(Cur) = NUL
       /\ pc \in ScannerPcs =>
             IF pc' = "tokenize"
             THEN /\ Len(tokens') = Len(tokens) + 1
                  /\ SubSeq(tokens', 1, Len(tokens)) = tokens
                  /\ tokens'[Len(tokens')].from = startPos'
                  /\ tokens'[Len(tokens')].to = pos'
                  /\ pos' >= startPos' + 1
             ELSE tokens' = tokens /\ pc' \in ScannerPcs
       /\ pc \notin ScannerPcs =>
             pc' \notin {"tokenize"} /\ (pc # "eof" => tokens' = tokens)]_vars

C18_Witness ==
    /\ pc = "readStringLoop"
    /\ pos = Len(source)
    /\ pos >= 2
    /\ tokens # <<>>

(* C19: once tokenize has returned, the cursor stays where the first call *)
(* left it, and every further call returns exactly one token, EndOfFile,  *)
(* with the line and column of the EndOfFile of the first call.           *)
C19_SingleUse ==
    returned # <<>> =>
       LET eof == returned[1][Len(returned[1])] IN
       /\ pos = Len(source)
       /\ line = eof.line
       /\ column = eof.column
       /\ \A k \in 2..Len(returned) :
             Detail(returned[k]) = << <<END_OF_FILE, <<>>, eof.line, eof.column>> >>

C19_Witness ==
    /\ Len(returned) = 2
    /\ Len(returned[1]) >= 3
    /\ Len(returned[2]) = 1
    /\ line = 2

(* (l1, c1) is before (l2, c2) in lexicographic order *)
Before(l1, c1, l2, c2) == l1 < l2 \/ (l1 = l2 /\ c1 < c2)

(* C20: the spans of consecutive tokens are disjoint and in source order, *)
(* the (line, column) pairs of the tokens other than EndOfFile strictly   *)
(* increase, and the EndOfFile position is before no token's position.    *)
C20_SourceOrder ==
    /\ \A i \in 1..Len(tokens) :
          /\ tokens[i].from <= tokens[i].to
          /\ tokens[i].type # END_OF_FILE => tokens[i].from < tokens[i].to
    /\ \A i \in 1..(Len(tokens) - 1) :
          /\ tokens[i].to <= tokens[i + 1].from
          /\ tokens[i + 1].type # END_OF_FILE =>
                Before(tokens[i].line, tokens[i].column,
                       tokens[i + 1].line, tokens[i + 1].column)
    /\ \A i, j \in 1..Len(tokens) :
          tokens[j].type = END_OF_FILE =>
             ~Before(tokens[j].line, tokens[j].column,
                     tokens[i].line, tokens[i].column)

C20_Witness ==
    /\ Done
    /\ Len(tokens) >= 3
    /\ tokens[2].type # END_OF_FILE
    /\ tokens[2].line > tokens[1].line
    /\ tokens[2].column < tokens[1].column

====
